---- MODULE Spec2Model ----
(***************************************************************************)
(* RAG Document Assistant, React frontend.                                 *)
(*                                                                         *)
(* Three views of the App component (ChatPanel.js:218-276):                *)
(*   Spec        App with activePanel = 'chat': the health check started   *)
(*               on mount, and one mounted ChatPanel (ChatPanel.js:10-141).*)
(*   DocSpec     App with activePanel = 'documents': one mounted           *)
(*               DocumentPanel (DocumentPanel.js:10-202) and the document  *)
(*               store of the backend behind services/api.js.              *)
(*   UploadSpec  the handleUpload calls of that DocumentPanel and their    *)
(*               uploadDocument requests alone.                            *)
(* Each view covers one mounted instance of its panel; dragOver, which     *)
(* only styles the drop zone, is left out.                                 *)
(*                                                                         *)
(* JavaScript runs each handler to its next await without interruption,    *)
(* so an action is the synchronous run of a handler up to its next await,  *)
(* or the continuation that runs when an awaited request settles.          *)
(*                                                                         *)
(* Texts are sequences of string fragments; what the user types is a       *)
(* sequence of one-character fragments.  A nullable value is Null (<<>>)   *)
(* or Some(x) (<<x>>).                                                     *)
(***************************************************************************)
EXTENDS Integers, Sequences, FiniteSets, TLC

\* ------------------------------------------------------------------ bounds
MaxInputLen == 2
MaxMessages == 4
MaxSessions == 2
MaxFiles == 2
MaxDeletes == 1

\* "Supports PDF files up to 50MB"
MaxUploadMB == 50
MaxUploadBytes == MaxUploadMB * 1024 * 1024

\* ------------------------------------------------------------------ values
Null == << >>
Some(x) == << x >>

Chars == {" ", "q"}

RECURSIVE SeqsUpTo(_, _)
SeqsUpTo(S, n) ==
    IF n = 0 THEN { << >> }
    ELSE LET shorter == SeqsUpTo(S, n - 1)
         IN  shorter \cup { Append(s, c) : s \in { t \in shorter : Len(t) = n - 1 }, c \in S }

Inputs == SeqsUpTo(Chars, MaxInputLen)

IsSpace(c) == c = " "

RECURSIVE TrimStart(_)
TrimStart(s) ==
    IF s = << >> THEN s
    ELSE IF IsSpace(Head(s)) THEN TrimStart(Tail(s)) ELSE s

RECURSIVE TrimEnd(_)
TrimEnd(s) ==
    IF s = << >> THEN s
    ELSE IF IsSpace(s[Len(s)]) THEN TrimEnd(SubSeq(s, 1, Len(s) - 1)) ELSE s

\* String.prototype.trim
Trim(s) == TrimEnd(TrimStart(s))

\* A session id is truthy in `if (sessionId)`: not null and not 0.
Truthy(opt) == opt /= Null /\ opt[1] /= 0

ErrorText == << "Sorry, I encountered an error processing your question. Please try again." >>

Answers == { << "answer" >> }
SourceLists == { << >>, << [page_number |-> 1, relevance_score |-> 1, content |-> << "passage" >>] >> }

HealthData == [status : {"healthy"}, ollama_available : BOOLEAN]

RemoveAt(s, i) == SubSeq(s, 1, i - 1) \o SubSeq(s, i + 1, Len(s))

UpperCase == << "A", "B", "C", "D", "E", "F", "G", "H", "I", "J", "K", "L", "M",
                "N", "O", "P", "Q", "R", "S", "T", "U", "V", "W", "X", "Y", "Z" >>
LowerCase == << "a", "b", "c", "d", "e", "f", "g", "h", "i", "j", "k", "l", "m",
                "n", "o", "p", "q", "r", "s", "t", "u", "v", "w", "x", "y", "z" >>

\* String.prototype.toLowerCase
ToLowerCase(s) ==
    [i \in 1..Len(s) |->
        IF \E k \in 1..Len(UpperCase) : UpperCase[k] = s[i]
        THEN LowerCase[CHOOSE k \in 1..Len(UpperCase) : UpperCase[k] = s[i]]
        ELSE s[i]]

\* String.prototype.endsWith
EndsWith(s, suffix) ==
    /\ Len(s) >= Len(suffix)
    /\ SubSeq(s, Len(s) - Len(suffix) + 1, Len(s)) = suffix

DotPdf == << ".", "p", "d", "f" >>

\* the files the user drops or selects
Files == { [name |-> << "a", ".", "p", "d", "f" >>, size |-> 1024],
           [name |-> << "B", ".", "P", "D", "F" >>, size |-> MaxUploadBytes + 1],
           [name |-> << "n", ".", "t", "x", "t" >>, size |-> 1024] }

FileLists == SeqsUpTo(Files, MaxFiles)

OnlyPdfText == << "Only PDF files are supported" >>
FailedUploadText(name) == << "Failed to upload " >> \o name
FailedLoadText == << "Failed to load documents" >>
FailedDeleteText == << "Failed to delete document" >>

\* ------------------------------------------------------------------- state
VARIABLES
    health,        \* App: health (Null until the check settles)
    healthCall,    \* the checkHealth() promise: <<"pending">>, <<"rejected">>, <<"resolved", data>>
    uncaught,      \* whether a rejection escaped every handler
    messages,      \* ChatPanel: messages
    input,         \* ChatPanel: input
    loading,       \* ChatPanel: loading
    sessionId,     \* ChatPanel: sessionId
    askCall,       \* the askQuestion() promise handleSubmit awaits: Null or Some(payload)
    nextSid,       \* backend: id the next lazily created session gets
    lastOp,        \* history: the handler or continuation that ran last
    askStale,      \* history: New Chat was clicked after the awaited question was sent
    convStarted,   \* history: a question was accepted since mount / the last New Chat
    convSid,       \* history: session_id of the latest successful response to a question
                   \*          of the conversation on screen (Null if none)
    asksInFlight,  \* history: askQuestion() calls made and not yet settled
    documents,     \* App: documents, the list DocumentPanel displays
    uploading,     \* DocumentPanel: uploading
    error,         \* DocumentPanel: error (Null or Some(text))
    batches,       \* the running handleUpload calls, oldest first: [files, at, phase],
                   \*   awaiting uploadDocument(files[at])
    fetches,       \* the listDocuments() requests in flight, in issue order: [phase, docs]
    deletes,       \* the deleteDocument() requests in flight: [id, phase]
    serverDocs,    \* backend: the Document records, [id, original_filename, status]
    nextDocId,     \* backend: id the next Document gets
    nFiles,        \* number of files handed to handleUpload so far (an empty list counts 1)
    nDeletes,      \* number of confirmed deletes so far
    passed,        \* history: the files the upload loop passed over in the step just taken
    latestPending, \* history: the listDocuments() request issued last has not settled
    latestDocs     \* history: the response to the listDocuments() request issued last
                   \*          (Null until it resolves, and if it was rejected)

docVars == << documents, uploading, error, batches, fetches, deletes, serverDocs, nextDocId,
              nFiles, nDeletes, passed, latestPending, latestDocs >>
chatVars == << messages, input, loading, sessionId, askCall, nextSid, askStale, convStarted, convSid,
              asksInFlight >>
appVars == << health, healthCall, uncaught >>
vars == << health, healthCall, uncaught, messages, input, loading, sessionId, askCall,
           nextSid, lastOp, askStale, convStarted, convSid, asksInFlight,
           documents, uploading, error, batches, fetches, deletes, serverDocs, nextDocId,
           nFiles, nDeletes, passed,
          latestPending, latestDocs >>

\* ---------------------------------------------------------- services/api.js
\* askQuestion(question, sessionId = null): the payload posted to /query/
AskQuestion(question, sid) ==
    IF Truthy(sid) THEN [question |-> question, session_id |-> sid[1]]
    ELSE [question |-> question]

\* POST /query/ on the backend: resolve the session (the given one, or a new
\* one), answer, and return {answer, session_id, sources}
QueryResponse(payload, answer, sources) ==
    [answer |-> answer,
     session_id |-> IF "session_id" \in DOMAIN payload THEN payload.session_id ELSE nextSid,
     sources |-> sources]

\* ------------------------------------------------------------ ChatPanel.js
UserMessage(question) == [role |-> "user", content |-> question]

AssistantMessage(response) ==
    [role |-> "assistant", content |-> response.answer, sources |-> response.sources]

ErrorMessage == [role |-> "assistant", content |-> ErrorText, error |-> TRUE]

\* variant: no early return at all
SubmitRejectedNever(inp, ld) == FALSE

\* variant: the guard tests the raw input, without trim()
SubmitRejectedUntrimmed(inp, ld) == inp = << >> \/ ld

\* handleSubmit's early return: if (!input.trim() || loading) return;
SubmitRejected(inp, ld) == Trim(inp) = << >> \/ ld

\* what the user may still ask within the bounds of the model
CanAsk == Len(messages) + 2 <= MaxMessages /\ nextSid <= MaxSessions

\* onChange of the text input, which is disabled while loading
SetInput(s) ==
    /\ ~loading
    /\ input' = s
    /\ lastOp' = "setInput"
    /\ UNCHANGED << messages, loading, sessionId, askCall, nextSid, askStale, convStarted, convSid,
                    asksInFlight >>
    /\ UNCHANGED appVars
    /\ UNCHANGED docVars

\* handleSubmit up to its await
HandleSubmit ==
    /\ SubmitRejected(input, loading) \/ CanAsk
    /\ lastOp' = "handleSubmit"
    /\ IF SubmitRejected(input, loading)
       THEN UNCHANGED chatVars
       ELSE LET question == Trim(input)
            IN  /\ input' = << >>
                /\ loading' = TRUE
                /\ messages' = Append(messages, UserMessage(question))
                /\ askCall' = Some(AskQuestion(question, sessionId))
                /\ asksInFlight' = asksInFlight + 1
                /\ askStale' = FALSE
                /\ convStarted' = TRUE
                /\ UNCHANGED << sessionId, nextSid, convSid >>
    /\ UNCHANGED appVars
    /\ UNCHANGED docVars

\* handleSubmit after its await, askQuestion resolved: try body, then finally
SubmitResolved(response) ==
    /\ sessionId' = Some(response.session_id)
    /\ messages' = Append(messages, AssistantMessage(response))
    /\ loading' = FALSE

\* variant: the failure path rolls the user's message back before reporting
SubmitFailedRollsBack ==
    /\ messages' = Append(SubSeq(messages, 1, Len(messages) - 1), ErrorMessage)
    /\ loading' = FALSE
    /\ UNCHANGED sessionId

\* variant: no finally block, loading is reset on success only
SubmitFailedKeepsLoading ==
    /\ messages' = Append(messages, ErrorMessage)
    /\ UNCHANGED << loading, sessionId >>

\* handleSubmit after its await, askQuestion rejected: catch body, then finally
SubmitFailed ==
    /\ messages' = Append(messages, ErrorMessage)
    /\ loading' = FALSE
    /\ UNCHANGED sessionId

AskResolve ==
    /\ askCall /= Null
    /\ \E answer \in Answers, sources \in SourceLists :
         LET response == QueryResponse(askCall[1], answer, sources)
         IN  /\ SubmitResolved(response)
             /\ nextSid' = IF "session_id" \in DOMAIN askCall[1] THEN nextSid ELSE nextSid + 1
             /\ convSid' = IF askStale THEN convSid ELSE Some(response.session_id)
    /\ askCall' = Null
    /\ asksInFlight' = asksInFlight - 1
    /\ lastOp' = "askResolve"
    /\ UNCHANGED << input, askStale, convStarted >>
    /\ UNCHANGED appVars
    /\ UNCHANGED docVars

AskReject ==
    /\ askCall /= Null
    /\ SubmitFailed
    /\ askCall' = Null
    /\ asksInFlight' = asksInFlight - 1
    /\ lastOp' = "askReject"
    /\ UNCHANGED << input, nextSid, askStale, convStarted, convSid >>
    /\ UNCHANGED appVars
    /\ UNCHANGED docVars

\* handleNewChat
HandleNewChat ==
    /\ messages' = << >>
    /\ sessionId' = Null
    /\ askStale' = (askCall /= Null)
    /\ convStarted' = FALSE
    /\ convSid' = Null
    /\ lastOp' = "handleNewChat"
    /\ UNCHANGED << input, loading, askCall, nextSid, asksInFlight >>
    /\ UNCHANGED appVars
    /\ UNCHANGED docVars

\* ------------------------------------------------------- App and StatusBar
\* variant: no .catch, the rejection escapes and health stays null
HealthOnRejectUnhandled == [health |-> Null, uncaught |-> TRUE]

\* .catch(() => setHealth({ status: 'error', ollama_available: false }))
HealthOnReject == [health |-> Some([status |-> "error", ollama_available |-> FALSE]),
                   uncaught |-> FALSE]

HealthResolve ==
    /\ healthCall = << "pending" >>
    /\ \E data \in HealthData :
         /\ health' = Some(data)
         /\ healthCall' = << "resolved", data >>
    /\ lastOp' = "healthResolve"
    /\ UNCHANGED << uncaught >>
    /\ UNCHANGED chatVars
    /\ UNCHANGED docVars

HealthReject ==
    /\ healthCall = << "pending" >>
    /\ health' = HealthOnReject.health
    /\ uncaught' = (uncaught \/ HealthOnReject.uncaught)
    /\ healthCall' = << "rejected" >>
    /\ lastOp' = "healthReject"
    /\ UNCHANGED chatVars
    /\ UNCHANGED docVars

\* StatusBar: const ollamaStatus = health?.ollama_available;
OllamaStatus(h) == h /= Null /\ h[1].ollama_available

LLMLabel(h) == IF OllamaStatus(h) THEN "Connected" ELSE "Disconnected"

\* --------------------------------------------------------- backend store
\* POST /documents/ accepts a PDF of at most the maximum size
ServerAccepts(file) ==
    /\ EndsWith(ToLowerCase(file.name), DotPdf)
    /\ file.size <= MaxUploadBytes

NewDocument(file) == [id |-> nextDocId, original_filename |-> file.name, status |-> "pending"]

\* ingestion: pending -> processing
ServerStartProcessing(k) ==
    /\ serverDocs[k].status = "pending"
    /\ serverDocs' = [serverDocs EXCEPT ![k].status = "processing"]
    /\ passed' = << >>
    /\ UNCHANGED << documents, uploading, error, batches, fetches, deletes, nextDocId,
                    nFiles, nDeletes >>
    /\ UNCHANGED << chatVars, appVars, lastOp, latestPending, latestDocs >>

\* ingestion: processing -> completed | failed
ServerFinishProcessing(k, result) ==
    /\ serverDocs[k].status = "processing"
    /\ serverDocs' = [serverDocs EXCEPT ![k].status = result]
    /\ passed' = << >>
    /\ UNCHANGED << documents, uploading, error, batches, fetches, deletes, nextDocId,
                    nFiles, nDeletes >>
    /\ UNCHANGED << chatVars, appVars, lastOp, latestPending, latestDocs >>

\* GET /documents/ answered from the store as it is now
ListServe(f) ==
    /\ fetches[f].phase = "sent"
    /\ fetches' = [fetches EXCEPT ![f] = [phase |-> "served", docs |-> serverDocs]]
    /\ passed' = << >>
    /\ UNCHANGED << documents, uploading, error, batches, deletes, serverDocs, nextDocId,
                    nFiles, nDeletes >>
    /\ UNCHANGED << chatVars, appVars, lastOp, latestPending, latestDocs >>

\* POST /documents/ handled: a Document is created, or the upload is refused
UploadServe(b) ==
    /\ batches[b].phase = "sent"
    /\ LET file == batches[b].files[batches[b].at]
       IN  IF ServerAccepts(file)
           THEN /\ serverDocs' = Append(serverDocs, NewDocument(file))
                /\ nextDocId' = nextDocId + 1
                /\ batches' = [batches EXCEPT ![b].phase = "created"]
           ELSE /\ batches' = [batches EXCEPT ![b].phase = "refused"]
                /\ UNCHANGED << serverDocs, nextDocId >>
    /\ passed' = << >>
    /\ UNCHANGED << documents, uploading, error, fetches, deletes, nFiles, nDeletes >>
    /\ UNCHANGED << chatVars, appVars, lastOp, latestPending, latestDocs >>

\* DELETE /documents/{id}/ handled: the Document is removed, or 404
DeleteServe(d) ==
    /\ deletes[d].phase = "sent"
    /\ IF \E k \in 1..Len(serverDocs) : serverDocs[k].id = deletes[d].id
       THEN /\ serverDocs' = RemoveAt(serverDocs,
                                CHOOSE k \in 1..Len(serverDocs) : serverDocs[k].id = deletes[d].id)
            /\ deletes' = [deletes EXCEPT ![d].phase = "deleted"]
       ELSE /\ deletes' = [deletes EXCEPT ![d].phase = "refused"]
            /\ UNCHANGED serverDocs
    /\ passed' = << >>
    /\ UNCHANGED << documents, uploading, error, batches, fetches, nextDocId, nFiles, nDeletes >>
    /\ UNCHANGED << chatVars, appVars, lastOp, latestPending, latestDocs >>

\* -------------------------------------------------------- DocumentPanel.js
\* fetchDocuments up to its await: listDocuments() is sent
NewFetch == [phase |-> "sent", docs |-> << >>]

\* fetchDocuments after its await, listDocuments resolved
FetchResolve(f) ==
    /\ fetches[f].phase = "served"
    /\ documents' = fetches[f].docs
    /\ fetches' = RemoveAt(fetches, f)
    /\ IF latestPending /\ f = Len(fetches)
       THEN /\ latestPending' = FALSE
            /\ latestDocs' = Some(fetches[f].docs)
       ELSE UNCHANGED << latestPending, latestDocs >>
    /\ passed' = << >>
    /\ UNCHANGED << uploading, error, batches, deletes, serverDocs, nextDocId, nFiles, nDeletes >>
    /\ UNCHANGED << chatVars, appVars, lastOp >>

\* fetchDocuments after its await, listDocuments rejected
FetchReject(f) ==
    /\ error' = Some(FailedLoadText)
    /\ fetches' = RemoveAt(fetches, f)
    /\ latestPending' = (latestPending /\ f /= Len(fetches))
    /\ UNCHANGED latestDocs
    /\ passed' = << >>
    /\ UNCHANGED << documents, uploading, batches, deletes, serverDocs, nextDocId, nFiles, nDeletes >>
    /\ UNCHANGED << chatVars, appVars, lastOp >>

\* file.name.toLowerCase().endsWith('.pdf')
IsPdfName(name) == EndsWith(ToLowerCase(name), DotPdf)

\* variant: the rejected file is reported but the loop does not `continue`
NextPdfWithoutContinue(files, from) == IF from <= Len(files) THEN from ELSE Len(files) + 1

\* the index of the first file at or after `from` that reaches uploadDocument,
\* Len(files) + 1 if the loop ends first
NextPdf(files, from) ==
    LET pdfs == { i \in from..Len(files) : IsPdfName(files[i].name) }
    IN  IF pdfs = {} THEN Len(files) + 1
        ELSE CHOOSE i \in pdfs : \A j \in pdfs : i <= j

\* the for loop of handleUpload run from index `from` to its next await or to
\* its end, with `err` the error state it starts from
RunLoop(files, from, err) ==
    LET at == NextPdf(files, from)
    IN  [at |-> at,
         passed |-> SubSeq(files, from, at - 1),
         error |-> IF \E i \in from..(at - 1) : ~IsPdfName(files[i].name)
                   THEN Some(OnlyPdfText) ELSE err]

\* what a call of handleUpload uses of the model's bound on uploads
Cost(files) == IF files = << >> THEN 1 ELSE Len(files)

\* handleUpload(files) up to its first await (handleDrop and handleFileSelect
\* both end in it)
HandleUpload(files) ==
    /\ nFiles + Cost(files) <= MaxFiles
    /\ nFiles' = nFiles + Cost(files)
    /\ LET run == RunLoop(files, 1, Null)
       IN  /\ error' = run.error
           /\ passed' = run.passed
           /\ IF run.at <= Len(files)
              THEN /\ uploading' = TRUE
                   /\ batches' = Append(batches, [files |-> files, at |-> run.at, phase |-> "sent"])
                   /\ UNCHANGED << fetches, latestPending, latestDocs >>
              ELSE /\ uploading' = FALSE
                   /\ fetches' = Append(fetches, NewFetch)
                   /\ latestPending' = TRUE
                   /\ latestDocs' = Null
                   /\ UNCHANGED batches
    /\ UNCHANGED << documents, deletes, serverDocs, nextDocId, nDeletes >>
    /\ UNCHANGED << chatVars, appVars, lastOp >>

\* handleUpload after an await: the rest of the loop, from the file after the
\* one just settled, then setUploading(false) and fetchDocuments()
UploadContinue(b, err) ==
    LET files == batches[b].files
        run == RunLoop(files, batches[b].at + 1, err)
    IN  /\ error' = run.error
        /\ passed' = run.passed
        /\ IF run.at <= Len(files)
           THEN /\ batches' = [batches EXCEPT ![b] = [files |-> files, at |-> run.at, phase |-> "sent"]]
                /\ UNCHANGED << uploading, fetches, latestPending, latestDocs >>
           ELSE /\ batches' = RemoveAt(batches, b)
                /\ uploading' = FALSE
                /\ fetches' = Append(fetches, NewFetch)
                /\ latestPending' = TRUE
                /\ latestDocs' = Null

\* uploadDocument resolved
UploadResolve(b) ==
    /\ batches[b].phase = "created"
    /\ UploadContinue(b, error)
    /\ UNCHANGED << documents, deletes, serverDocs, nextDocId, nFiles, nDeletes >>
    /\ UNCHANGED << chatVars, appVars, lastOp >>

\* variant: a failed upload ends the batch (the try around the whole loop)
UploadRejectAborts(b) ==
    /\ error' = Some(FailedUploadText(batches[b].files[batches[b].at].name))
    /\ passed' = << >>
    /\ batches' = RemoveAt(batches, b)
    /\ uploading' = FALSE
    /\ fetches' = Append(fetches, NewFetch)
    /\ latestPending' = TRUE
    /\ latestDocs' = Null
    /\ UNCHANGED << documents, deletes, serverDocs, nextDocId, nFiles, nDeletes >>
    /\ UNCHANGED << chatVars, appVars, lastOp >>

\* uploadDocument rejected (refused by the backend, or the request failed)
UploadReject(b) ==
    /\ UploadContinue(b, Some(FailedUploadText(batches[b].files[batches[b].at].name)))
    /\ UNCHANGED << documents, deletes, serverDocs, nextDocId, nFiles, nDeletes >>
    /\ UNCHANGED << chatVars, appVars, lastOp >>

\* handleDelete(documentId) up to its await, from the button of a listed document
HandleDelete(k, confirmed) ==
    /\ passed' = << >>
    /\ IF ~confirmed
       THEN UNCHANGED << deletes, nDeletes >>
       ELSE /\ nDeletes < MaxDeletes
            /\ nDeletes' = nDeletes + 1
            /\ deletes' = Append(deletes, [id |-> documents[k].id, phase |-> "sent"])
    /\ UNCHANGED << documents, uploading, error, batches, fetches, serverDocs, nextDocId, nFiles >>
    /\ UNCHANGED << chatVars, appVars, lastOp, latestPending, latestDocs >>

\* handleDelete after its await, deleteDocument resolved
DeleteResolve(d) ==
    /\ deletes[d].phase = "deleted"
    /\ deletes' = RemoveAt(deletes, d)
    /\ fetches' = Append(fetches, NewFetch)
    /\ latestPending' = TRUE
    /\ latestDocs' = Null
    /\ passed' = << >>
    /\ UNCHANGED << documents, uploading, error, batches, serverDocs, nextDocId, nFiles, nDeletes >>
    /\ UNCHANGED << chatVars, appVars, lastOp >>

\* handleDelete after its await, deleteDocument rejected
DeleteReject(d) ==
    /\ deletes' = RemoveAt(deletes, d)
    /\ error' = Some(FailedDeleteText)
    /\ passed' = << >>
    /\ UNCHANGED << documents, uploading, batches, fetches, serverDocs, nextDocId, nFiles, nDeletes >>
    /\ UNCHANGED << chatVars, appVars, lastOp, latestPending, latestDocs >>

\* --------------------------------------------------------------- behaviour
Init ==
    /\ health = Null
    /\ healthCall = << "pending" >>
    /\ uncaught = FALSE
    /\ messages = << >>
    /\ input = << >>
    /\ loading = FALSE
    /\ sessionId = Null
    /\ askCall = Null
    /\ nextSid = 1
    /\ lastOp = "mount"
    /\ askStale = FALSE
    /\ convStarted = FALSE
    /\ convSid = Null
    /\ asksInFlight = 0
    /\ documents = << >>
    /\ uploading = FALSE
    /\ error = Null
    /\ batches = << >>
    /\ fetches = << >>
    /\ deletes = << >>
    /\ serverDocs = << >>
    /\ nextDocId = 1
    /\ nFiles = 0
    /\ nDeletes = 0
    /\ passed = << >>
    /\ latestPending = FALSE
    /\ latestDocs = Null

Next ==
    \/ \E s \in Inputs : SetInput(s)
    \/ HandleSubmit
    \/ AskResolve
    \/ AskReject
    \/ HandleNewChat
    \/ HealthResolve
    \/ HealthReject

Spec == Init /\ [][Next]_vars

\* the documents panel has just been mounted: its effect has called fetchDocuments()
DocInit ==
    /\ health = Null
    /\ healthCall = << "pending" >>
    /\ uncaught = FALSE
    /\ messages = << >>
    /\ input = << >>
    /\ loading = FALSE
    /\ sessionId = Null
    /\ askCall = Null
    /\ nextSid = 1
    /\ lastOp = "mount"
    /\ askStale = FALSE
    /\ convStarted = FALSE
    /\ convSid = Null
    /\ asksInFlight = 0
    /\ documents = << >>
    /\ uploading = FALSE
    /\ error = Null
    /\ batches = << >>
    /\ fetches = << NewFetch >>
    /\ deletes = << >>
    /\ serverDocs = << >>
    /\ nextDocId = 1
    /\ nFiles = 0
    /\ nDeletes = 0
    /\ passed = << >>
    /\ latestPending = TRUE
    /\ latestDocs = Null

DocNext ==
    \/ \E files \in FileLists : HandleUpload(files)
    \/ \E b \in 1..Len(batches) : UploadServe(b)
    \/ \E b \in 1..Len(batches) : UploadResolve(b)
    \/ \E b \in 1..Len(batches) : UploadReject(b)
    \/ \E k \in 1..Len(documents), confirmed \in BOOLEAN : HandleDelete(k, confirmed)
    \/ \E d \in 1..Len(deletes) : DeleteServe(d)
    \/ \E d \in 1..Len(deletes) : DeleteResolve(d)
    \/ \E d \in 1..Len(deletes) : DeleteReject(d)
    \/ \E f \in 1..Len(fetches) : ListServe(f)
    \/ \E f \in 1..Len(fetches) : FetchResolve(f)
    \/ \E f \in 1..Len(fetches) : FetchReject(f)
    \/ \E k \in 1..Len(serverDocs) : ServerStartProcessing(k)
    \/ \E k \in 1..Len(serverDocs), result \in {"completed", "failed"} : ServerFinishProcessing(k, result)

DocSpec == DocInit /\ [][DocNext]_vars

\* the upload loop alone: the batches and the uploadDocument requests, with the
\* listDocuments requests the batches issue left unanswered
UploadNext ==
    \/ \E files \in FileLists : HandleUpload(files)
    \/ \E b \in 1..Len(batches) : UploadServe(b)
    \/ \E b \in 1..Len(batches) : UploadResolve(b)
    \/ \E b \in 1..Len(batches) : UploadReject(b)

UploadSpec == DocInit /\ [][UploadNext]_vars

\* ================================================================== claims

\* C1: the message list is always a sequence of (user, assistant) pairs,
\* followed by one unanswered user message exactly when loading is true.
C1_PairsAlways ==
    /\ \A i \in 1..Len(messages) :
         messages[i].role = (IF i % 2 = 1 THEN "user" ELSE "assistant")
    /\ (Len(messages) % 2 = 1) <=> loading

C3_SessionThreaded ==
    /\ (askCall /= Null /\ ~askStale)
         => IF convSid = Null
            THEN "session_id" \notin DOMAIN askCall[1]
            ELSE "session_id" \in DOMAIN askCall[1] /\ askCall[1].session_id = convSid[1]
    /\ \A sid \in {Null} \cup {Some(s) : s \in 1..MaxSessions} :
         ("session_id" \in DOMAIN AskQuestion(<< "q" >>, sid)) <=> (sid /= Null)

\* C4: while no question has been accepted since New Chat the message list is
\* empty, and the first question accepted after New Chat is sent without
\* session_id.
C4_NewChatStartsFresh ==
    [][ /\ ~convStarted' => messages' = << >>
        /\ (~convStarted /\ convStarted') => "session_id" \notin DOMAIN askCall'[1] ]_vars

\* C7: when the awaited askQuestion call resolves or rejects, exactly one
\* assistant message (the answer, or the error-flagged message) is appended
\* and loading is false again, so that handleSubmit accepts a further
\* question; loading is true only while a call is awaited.
C7_NeverLeftHanging ==
    [][ /\ (askCall /= Null /\ askCall' = Null)
          => /\ Len(messages') = Len(messages) + 1
             /\ SubSeq(messages', 1, Len(messages)) = messages
             /\ messages'[Len(messages')].role = "assistant"
             /\ \/ messages'[Len(messages')] = [role |-> "assistant", content |-> ErrorText, error |-> TRUE]
                \/ /\ "error" \notin DOMAIN messages'[Len(messages')]
                   /\ messages'[Len(messages')].content \in Answers
             /\ ~loading'
             /\ ~SubmitRejected(<< "q" >>, loading')
        /\ loading' <=> (askCall' /= Null) ]_vars

C7_Witness ==
    /\ Len(messages) = 3
    /\ loading
    /\ askCall /= Null
    /\ "error" \in DOMAIN messages[2]
    /\ messages[3].role = "user"

\* C9: a rejected health check leaves health = {status: 'error',
\* ollama_available: false}, no rejection escapes, and the status bar shows
\* Disconnected; Connected is shown only after a health response whose
\* ollama_available is true.
C9_HealthFailureIsAFlag ==
    /\ healthCall = << "rejected" >>
         => /\ health = Some([status |-> "error", ollama_available |-> FALSE])
            /\ ~uncaught
            /\ LLMLabel(health) = "Disconnected"
    /\ LLMLabel(health) = "Connected"
         => /\ healthCall[1] = "resolved"
            /\ healthCall[2].ollama_available = TRUE
    /\ ~uncaught

C9_Witness ==
    /\ healthCall = << "rejected" >>
    /\ LLMLabel(health) = "Disconnected"
    /\ health /= Null

\* C10: a submit whose input is empty or only whitespace sends no request and
\* leaves messages, loading, sessionId and input unchanged.
C10_BlankSubmitChangesNothing ==
    [][ (lastOp' = "handleSubmit" /\ \A i \in 1..Len(input) : input[i] = " ")
        => UNCHANGED << messages, loading, sessionId, input, askCall >> ]_vars

C10_Witness ==
    /\ lastOp = "handleSubmit"
    /\ input = << " " >>
    /\ ~loading
    /\ askCall = Null
    /\ Len(messages) = 2

\* C5: handleUpload never calls uploadDocument for a file whose name does not
\* end in .pdf (compared in lower case), and a run of the upload loop that
\* passes over such a file leaves error = 'Only PDF files are supported'.
C5_NonPdfNeverUploaded ==
    [][ /\ \A b \in 1..Len(batches') :
             EndsWith(ToLowerCase(batches'[b].files[batches'[b].at].name), << ".", "p", "d", "f" >>)
        /\ (\E i \in 1..Len(passed') :
               ~EndsWith(ToLowerCase(passed'[i].name), << ".", "p", "d", "f" >>))
             => error' = Some(<< "Only PDF files are supported" >>) ]_vars

C5_Witness ==
    /\ Len(batches) = 1
    /\ batches[1].at = 2
    /\ batches[1].files[1].name = << "n", ".", "t", "x", "t" >>
    /\ passed = << batches[1].files[1] >>
    /\ error = Some(OnlyPdfText)

\* C6: handleUpload never calls uploadDocument for a file whose size exceeds
\* the 50 MB maximum.
C6_OversizeNeverUploaded ==
    \A b \in 1..Len(batches) :
        batches[b].files[batches[b].at].size <= MaxUploadMB * 1024 * 1024

\* C8: when nothing is in flight any more (no upload, no listDocuments, no
\* delete), every listed document whose status on the backend is completed or
\* failed is displayed with that status: no user action is needed to see it.
C8_DisplayedStatusCatchesUp ==
    (batches = << >> /\ fetches = << >> /\ deletes = << >>)
    => \A i \in 1..Len(documents) : \A k \in 1..Len(serverDocs) :
          (serverDocs[k].id = documents[i].id /\ serverDocs[k].status \in {"completed", "failed"})
          => documents[i].status = serverDocs[k].status

\* C11: at most one askQuestion call is in flight; a submit made while loading
\* is true sends no request and changes no state; and no two neighbouring
\* messages of the list have the same role, so the messages of two questions
\* are never interleaved.
C11_OneQuestionAtATime ==
    [][ /\ (lastOp' = "handleSubmit" /\ loading)
          => UNCHANGED << messages, loading, sessionId, input, askCall, asksInFlight >>
        /\ asksInFlight' <= 1
        /\ \A i \in 1..(Len(messages') - 1) : messages'[i].role /= messages'[i + 1].role ]_vars

C11_Witness ==
    /\ lastOp = "handleSubmit"
    /\ loading
    /\ asksInFlight = 1
    /\ messages = << >>

\* the file at index `at` is the first PDF file of `files` at or after `from`
C12_IsNextPdf(files, from, at) ==
    /\ at \in from..Len(files)
    /\ EndsWith(ToLowerCase(files[at].name), << ".", "p", "d", "f" >>)
    /\ \A i \in from..(at - 1) : ~EndsWith(ToLowerCase(files[i].name), << ".", "p", "d", "f" >>)

\* no file of `files` at or after `from` is a PDF file
C12_NoPdfFrom(files, from) ==
    \A i \in from..Len(files) : ~EndsWith(ToLowerCase(files[i].name), << ".", "p", "d", "f" >>)

\* C12: within one batch the PDF files are uploaded one at a time in the order
\* given: handleUpload sends the first PDF file of the batch; when an upload
\* settles, resolved or rejected, the batch sends its next PDF file, whatever
\* was skipped or failed before it; and when no PDF file remains uploading is
\* set to false and exactly one listDocuments request is issued.
C12_EachPdfUploadedOnce ==
    [][ /\ nFiles' /= nFiles
           => \/ /\ Len(batches') = Len(batches) + 1
                 /\ SubSeq(batches', 1, Len(batches)) = batches
                 /\ LET nb == batches'[Len(batches')]
                    IN  /\ nb.phase = "sent"
                        /\ C12_IsNextPdf(nb.files, 1, nb.at)
                        /\ passed' = SubSeq(nb.files, 1, nb.at - 1)
                 /\ fetches' = fetches
              \/ /\ batches' = batches
                 /\ C12_NoPdfFrom(passed', 1)
                 /\ uploading' = FALSE
                 /\ fetches' = Append(fetches, NewFetch)
        /\ (nFiles' = nFiles /\ batches' /= batches)
           => \E b \in 1..Len(batches) :
                LET old == batches[b]
                IN  \/ /\ old.phase = "sent"
                       /\ \E ph \in {"created", "refused"} :
                            batches' = [batches EXCEPT ![b] = [files |-> old.files, at |-> old.at, phase |-> ph]]
                       /\ UNCHANGED << uploading, fetches >>
                    \/ /\ \E at \in (old.at + 1)..Len(old.files) :
                            /\ C12_IsNextPdf(old.files, old.at + 1, at)
                            /\ batches' = [batches EXCEPT ![b] = [files |-> old.files, at |-> at, phase |-> "sent"]]
                       /\ UNCHANGED << uploading, fetches >>
                    \/ /\ C12_NoPdfFrom(old.files, old.at + 1)
                       /\ batches' = RemoveAt(batches, b)
                       /\ uploading' = FALSE
                       /\ fetches' = Append(fetches, NewFetch) ]_vars

C12_Witness ==
    /\ Len(batches) = 1
    /\ Len(batches[1].files) = 2
    /\ batches[1].at = 2
    /\ batches[1].phase = "sent"
    /\ error = Some(FailedUploadText(batches[1].files[1].name))

\* C13: uploading is true in every state in which an uploadDocument request
\* started by handleUpload has not settled yet, whichever batch it belongs to.
C13_UploadingWhileInFlight ==
    (\E b \in 1..Len(batches) : batches[b].phase \in {"sent", "created", "refused"})
        => uploading = TRUE

\* C14: once every listDocuments request has settled, the displayed document
\* list is the response to the request that was issued last (when that request
\* resolved), whatever the order in which the overlapping responses arrived.
C14_LatestResponseShown ==
    (fetches = << >> /\ latestDocs /= Null) => documents = latestDocs[1]

====
